---- MODULE Spec2Model ----
(***************************************************************************)
(* Model of main.py of channel-quality-prediction: the windowed training   *)
(* and evaluation pipeline of the channel blacklisting network.            *)
(*                                                                         *)
(* Real numbers are exact rationals <<n, d>> (n/d) over a fixed-point grid  *)
(* of resolution 1/Scale: a score or an error probability of level s is    *)
(* s/Scale.  <<0, 0>> is NaN (0/0) and <<n, 0>>, n > 0, is +inf.            *)
(* Tensors keep only the axes the pipeline's control flow depends on: the  *)
(* time axis of a window is its index range into the series, a score       *)
(* matrix is a sequence of rows over the channels.                         *)
(***************************************************************************)
EXTENDS Integers, Sequences, FiniteSets, TLC

VARIABLES
    args,                    \* parsed command line (line 56)
    files,                   \* results/<dataset>-<method>.pt, per method
    collaborators,           \* the responses of model.Network, protocols.tsch and simulation.BitErrorProb
    datapoints,              \* data.shape[0] (line 59)
    pc,                      \* position of the script
    error,                   \* "none", or the exception that ended the run
    train_samples_cutoff,    \* line 60
    training_len,            \* len(training_data), line 61
    data_mean,               \* line 63
    data_std,                \* line 63
    models,                  \* line 68: method -> (penalty_weight, network)
    reducing_method,         \* loop variable of lines 72, 121, 139
    optimizer,               \* RMSprop of line 73: number of steps taken, gradients held
    iteration,               \* loop variable of line 76
    metrics,                 \* line 74
    random_indices,          \* line 79
    past_windows,            \* lines 80, 142: index ranges <<start, end>> into the series
    future_windows,          \* lines 81, 143
    past_windows_normalized, \* lines 84, 145: the windows and the statistics they are normalized with
    blacklist,               \* lines 85, 147: the score matrix
    error_prop_values,       \* line 88
    channels_matrix,         \* line 87
    error_props_per_channel, \* line 89
    errors_reduced,          \* line 90
    cross_entropy_loss,      \* line 95
    blacklisting_penalty,    \* line 96
    loss_func,               \* line 97
    tsch_errors,             \* line 127
    pivots,                  \* line 141
    available_channels,      \* line 151
    interference_values,     \* line 152: the call made to intelligent_tsch
    reception_props_values   \* line 154

vars == <<args, files, collaborators, datapoints, pc, error, train_samples_cutoff, training_len,
          data_mean, data_std, models, reducing_method, optimizer, iteration, metrics,
          random_indices, past_windows, future_windows, past_windows_normalized,
          blacklist, error_prop_values,
          channels_matrix, error_props_per_channel, errors_reduced, cross_entropy_loss,
          blacklisting_penalty, loss_func, tsch_errors, pivots, available_channels,
          interference_values, reception_props_values>>

\* The variables written by the setup and the training and evaluation loops' control.
ctl == <<args, files, collaborators, datapoints, train_samples_cutoff, training_len, data_mean, data_std>>
\* The temporaries of one training iteration.
fwd == <<random_indices, past_windows, future_windows, past_windows_normalized,
         error_prop_values,
         channels_matrix, error_props_per_channel, errors_reduced,
         cross_entropy_loss, blacklisting_penalty, loss_func>>
\* The variables of the evaluation.
evl == <<tsch_errors, pivots, available_channels, interference_values,
         reception_props_values>>

None == "None"

----------------------------------------------------------------------------
(* Bounds of the model.                                                    *)

MaxDatapoints == 6     \* series of 1..MaxDatapoints time steps
MaxSampleRate == 1     \* --sample-rate in 1..MaxSampleRate
MaxWindow == 2         \* --past-window and --future-window in 1..MaxWindow
MaxTrainSplit == 2     \* --train-split in 1..MaxTrainSplit, or the whole series
MaxIterations == 2     \* --iterations in 1..MaxIterations
MaxBatchSize == 2      \* --batch-size in 1..MaxBatchSize
Scale == 2             \* scores and error probabilities are the levels 0..Scale, level s being s/Scale
MaxSlots == 3          \* the reduced axis holds 2..MaxSlots entries
NCells == 2            \* cells (batch element, channel) of the training tensors
MaxRot == 3            \* rotations of the block score rows

(* Program constants.                                                      *)

Channels == 16         \* data.shape[2], the 16 channels of the datasets
ThresholdIndex == 8    \* scores_sorted[:, 8]
PlotSeconds == 300     \* 300 * args.sample_rate, the end of the plotted range

Methods == <<"mean", "max">>

----------------------------------------------------------------------------
(* Arithmetic.                                                             *)

Min(a, b) == IF a <= b THEN a ELSE b
Max(a, b) == IF a >= b THEN a ELSE b

RECURSIVE SumSeq(_)
SumSeq(s) == IF s = <<>> THEN 0 ELSE Head(s) + SumSeq(Tail(s))

RECURSIVE MaxSeq(_)
MaxSeq(s) == IF Len(s) = 1 THEN s[1] ELSE Max(Head(s), MaxSeq(Tail(s)))

IsNaN(q) == q[1] = 0 /\ q[2] = 0
IsFinite(q) == q[2] # 0
\* Equality of two finite rationals.
RatEq(p, q) == IsFinite(p) /\ IsFinite(q) /\ p[1] * q[2] = q[1] * p[2]

RatMul(p, q) == <<p[1] * q[1], p[2] * q[2]>>
RatAdd(p, q) == <<p[1] * q[2] + q[1] * p[2], p[2] * q[2]>>
\* A division that falls back to 0 when the weight is 0.
RatDivFallback(p, w) == IF w = 0 THEN <<0, 1>> ELSE <<p[1], p[2] * w>>
\* IEEE division of a non-negative real by a non-negative weight: x/0 is inf, 0/0 is NaN.
RatDiv(p, w) == <<p[1], p[2] * w>>
\* The real number of a level.
Real(s) == <<s, Scale>>

\* ln(n/d) in units of 1/1000, for n >= d > 0: ln 2 per halving, then the
\* series 2 atanh((n-d)/(n+d)) in fixed point.
RECURSIVE LnMilli(_, _)
LnMilli(n, d) ==
    IF n >= 2 * d THEN 693 + LnMilli(n, 2 * d)
    ELSE LET z  == ((n - d) * 10000) \div (n + d)
             z2 == (z * z) \div 10000
             z3 == (z * z2) \div 10000
             z5 == (z3 * z2) \div 10000
             z7 == (z5 * z2) \div 10000
         IN  (2 * (z + z3 \div 3 + z5 \div 5 + z7 \div 7)) \div 10

----------------------------------------------------------------------------
(* reduce (lines 16-22).  values[t][c] and matrix[t][c] are indexed by the *)
(* reduced axis t (dim 0) and the cell c; values are levels.               *)

Column(tensor, c) == [t \in 1..Len(tensor) |-> tensor[t][c]]

\* reduce with the test of the method inverted.
reduceInverted(values, method, matrix) ==
    IF method # "mean"
    THEN [c \in 1..Len(values[1]) |->
            RatDiv(Real(SumSeq(Column(values, c))), SumSeq(Column(matrix, c)))]
    ELSE [c \in 1..Len(values[1]) |-> Real(MaxSeq(Column(values, c)))]

reduce(values, method, matrix) ==
    IF method = "mean"
    THEN [c \in 1..Len(values[1]) |->
            LET channels_sums == Real(SumSeq(Column(values, c)))
                channels_weights == SumSeq(Column(matrix, c))
            IN  RatDiv(channels_sums, channels_weights)]
    ELSE [c \in 1..Len(values[1]) |-> Real(MaxSeq(Column(values, c)))]

\* torch.mul(error_prop_values.unsqueeze(dim=2), channels_matrix) (line 89)
PerChannel(errs, matrix) ==
    [t \in 1..Len(matrix) |-> [c \in 1..Len(matrix[t]) |-> errs[t] * matrix[t][c]]]

----------------------------------------------------------------------------
(* The loss function (lines 92-97) over the cells of the score matrix.     *)

\* whitelist = ones_like(blacklist) - blacklist (line 92)
Whitelist(scores) == [c \in 1..Len(scores) |-> <<Scale - scores[c], Scale>>]
\* outputs = errors_reduced * whitelist (line 93)
Outputs(reduced, scores) ==
    [c \in 1..Len(scores) |-> RatMul(reduced[c], Whitelist(scores)[c])]

\* nn.BCELoss accepts only inputs in [0, 1]; NaN and inf are rejected.
InUnitRange(q) == q[2] > 0 /\ 0 <= q[1] /\ q[1] <= q[2]
\* One element of BCELoss against the target 0: -max(log(1 - x), -100), in 1/1000.
BCETerm(q) == IF q[1] = q[2] THEN 100000 ELSE LnMilli(q[2], q[2] - q[1])
\* criterion(outputs, desired_outputs) (line 95): the mean over the elements.
BCELoss(outputs) ==
    <<SumSeq([c \in 1..Len(outputs) |-> BCETerm(outputs[c])]), 1000 * Len(outputs)>>
\* torch.mean(blacklist) (line 96)
BlacklistingPenalty(scores) == <<SumSeq(scores), Scale * Len(scores)>>
\* The loss without the penalty weight.
LossFuncUnweighted(ce, penalty, penalty_weight) == RatAdd(ce, penalty)
\* loss_func = cross_entropy_loss + blacklisting_penalty * penalty_weight (line 97)
LossFunc(ce, penalty, penalty_weight) == RatAdd(ce, RatMul(penalty, penalty_weight))

----------------------------------------------------------------------------
(* The availability mask (lines 148-151) of a score matrix, a sequence of  *)
(* rows over the channels.                                                 *)

\* np.sort of one row: position j holds the value of rank j.
SortRow(row) ==
    [j \in 1..Len(row) |->
        CHOOSE v \in {row[i] : i \in 1..Len(row)} :
            /\ Cardinality({i \in 1..Len(row) : row[i] < v}) < j
            /\ j <= Cardinality({i \in 1..Len(row) : row[i] <= v})]
\* Thresholds taking the 8th smallest score (index 7) instead of the 9th.
ThresholdsOffByOne(scores) == [r \in 1..Len(scores) |-> SortRow(scores[r])[ThresholdIndex]]
\* scores_sorted[:, 8] (line 149); sequences are 1-based.
Thresholds(scores) == [r \in 1..Len(scores) |-> SortRow(scores[r])[ThresholdIndex + 1]]
\* AvailableChannels comparing with <= instead of <.
AvailableChannelsInclusive(scores) ==
    [r \in 1..Len(scores) |->
        [c \in 1..Len(scores[r]) |-> scores[r][c] <= Thresholds(scores)[r]]]
\* blacklist < thresholds (line 151)
AvailableChannels(scores) ==
    [r \in 1..Len(scores) |->
        [c \in 1..Len(scores[r]) |-> scores[r][c] < Thresholds(scores)[r]]]

----------------------------------------------------------------------------
(* Windows and pivots.                                                     *)

PastLen == args.past_window * args.sample_rate
FutureLen == args.future_window * args.sample_rate

\* series[lo:hi] of a series of n time steps, 0 <= lo <= hi: the index range <<start, end>>.
Slice(lo, hi, n) == <<Min(lo, n), Min(hi, n)>>
WindowLen(w) == w[2] - w[1]
\* torch.cat(windows, dim=1) needs a non-empty list of windows of one length.
CanCat(windows) ==
    /\ Len(windows) > 0
    /\ \A i, j \in 1..Len(windows) : WindowLen(windows[i]) = WindowLen(windows[j])

\* int(0.80 * datapoints) - future_window * sample_rate (line 79): the exclusive upper
\* bound of np.random.randint.
SampleHigh == (4 * datapoints) \div 5 - FutureLen
SampleLow == PastLen
\* [training_data[index - pastLen: index] for index in random_indices] (line 80)
TrainPastWindows(indices) ==
    [i \in 1..Len(indices) |-> Slice(indices[i] - PastLen, indices[i], training_len)]
\* [training_data[index: index + futureLen] for index in random_indices] (line 81)
TrainFutureWindows(indices) ==
    [i \in 1..Len(indices) |-> Slice(indices[i], indices[i] + FutureLen, training_len)]

\* np.arange(pastLen, datapoints, futureLen) (line 141)
EvalPivots ==
    LET n == IF datapoints > PastLen
             THEN (datapoints - PastLen + FutureLen - 1) \div FutureLen
             ELSE 0
    IN  [k \in 1..n |-> PastLen + (k - 1) * FutureLen]
\* lines 142, 143
EvalPastWindows(ps) == [i \in 1..Len(ps) |-> Slice(ps[i] - PastLen, ps[i], datapoints)]
EvalFutureWindows(ps) == [i \in 1..Len(ps) |-> Slice(ps[i], ps[i] + FutureLen, datapoints)]

\* A normalization with the statistics of the batch's own first window.
NormalizedPerBatch(windows) ==
    [windows |-> windows, mean |-> <<"mean", windows[1][1], windows[1][2]>>,
     std |-> <<"std", windows[1][1], windows[1][2]>>]
\* (past_windows_downsampled - data_mean) / data_std (lines 84, 145)
Normalized(windows) == [windows |-> windows, mean |-> data_mean, std |-> data_std]

NextMethod(m) == IF m = "mean" THEN "max" ELSE None

\* The run ends with an uncaught exception.
Raise(e) == pc' = "failed" /\ error' = e

----------------------------------------------------------------------------
(* The outputs of the collaborators (model.Network, protocols.tsch,        *)
(* simulation.BitErrorProb) are inputs of the pipeline, drawn from these   *)
(* sets.                                                                   *)

\* A row of scores in three blocks of the levels lo, mid, hi, rotated by rot channels.
BlockRow(a, b, lo, mid, hi, rot) ==
    [c \in 1..Channels |->
        LET k == (c - 1 + rot) % Channels
        IN  IF k < a THEN lo ELSE IF k < a + b THEN mid ELSE hi]
ScoreRows ==
    UNION {{BlockRow(a, b, lo, mid, hi, rot) :
                b \in 0..(Channels - a), lo \in 0..Scale, mid \in 0..Scale,
                hi \in 0..Scale, rot \in 0..MaxRot} : a \in 0..Channels}

\* Score matrices of the training batch, flattened to NCells cells.
ScoreCells == [1..NCells -> 0..Scale]

\* Bit error probabilities of the slots of a future window.
ErrorValues(T) == [1..T -> 0..Scale]

\* Channel attribution matrices: per slot, every cell attributed, none, or the first.
MatrixRows == {[c \in 1..NCells |-> 1], [c \in 1..NCells |-> 0],
               [c \in 1..NCells |-> IF c = 1 THEN 1 ELSE 0]}
Matrices(T) == [1..T -> MatrixRows]
\* all-ones, and channel hopping: slot t is attributed to cell ((t - 1) mod NCells) + 1.
OnesMatrix(T) == [t \in 1..T |-> [c \in 1..NCells |-> 1]]
HopMatrix(T) == [t \in 1..T |-> [c \in 1..NCells |-> IF c = ((t - 1) % NCells) + 1 THEN 1 ELSE 0]]
\* every slot attributed to the first cell only
FirstMatrix(T) == [t \in 1..T |-> [c \in 1..NCells |-> IF c = 1 THEN 1 ELSE 0]]

\* The collaborators are pure functions, fixed for a run.  The whole pipeline is run
\* with collaborators whose responses do not depend on the window: a network of
\* one score level, an error model of one error level, a simulator attributing
\* every slot to every cell ("ones") or hopping over the cells ("hop").  The
\* masked simulator and the error model return their (slots, pivots) tensor
\* laid out slot by slot (contiguous) or pivot by pivot.
Layouts == {"slot-major", "pivot-major"}
Collaborators ==
    [score : {0, Scale}, error : {0, Scale}, matrix : {"ones", "hop"}, layout : Layouts]
\* network(past_windows_normalized) in training: the scores of the NCells cells
NetworkScores == [c \in 1..NCells |-> collaborators.score]
\* network(past_windows_normalized) at evaluation: a row per pivot.  The network of
\* the low level scores 8 channels low, one at the middle and 7 high; the network
\* of the high level scores every channel alike.
NetworkRows(n) ==
    [i \in 1..n |-> IF collaborators.score = 0
                    THEN BlockRow(ThresholdIndex, 1, 0, 1, Scale, 0)
                    ELSE BlockRow(Channels, 0, Scale, Scale, Scale, 0)]
\* error_props(interference_power_levels) of a window of T slots
ErrorProps(T) == [t \in 1..T |-> collaborators.error]
\* the channels_matrix of tsch(future_windows) of a window of T slots
TschMatrix(T) == IF collaborators.matrix = "ones" THEN OnesMatrix(T) ELSE HopMatrix(T)

----------------------------------------------------------------------------
(* The script.                                                             *)

\* Network(args.layers, args.neurons): parameters as initialised, in training mode.
NewNetwork == [params |-> [origin |-> "init", updates |-> 0], training |-> TRUE]
\* results/<dataset>-<method>.pt: missing, or a network saved by an earlier run.
AbsentFile == [exists |-> FALSE, network |-> NewNetwork]
SavedFile == [exists |-> TRUE,
              network |-> [params |-> [origin |-> "snapshot", updates |-> 0], training |-> TRUE]]

\* The command lines of a series of n time steps: --train-split is small, or
\* covers the whole series.
Args(n) ==
    [train : BOOLEAN, train_split : (1..MaxTrainSplit) \cup {n},
     sample_rate : 1..MaxSampleRate,
     past_window : 1..MaxWindow, future_window : 1..MaxWindow,
     iterations : 1..MaxIterations, batch_size : 1..MaxBatchSize]

\* The values of the variables no statement has assigned yet.
Unassigned ==
    /\ error = "none"
    /\ train_samples_cutoff = None /\ training_len = None
    /\ data_mean = None /\ data_std = None
    /\ models = None /\ reducing_method = None
    /\ optimizer = None /\ iteration = None /\ metrics = None
    /\ random_indices = None /\ past_windows = None /\ future_windows = None
    /\ past_windows_normalized = None
    /\ blacklist = None /\ error_prop_values = None /\ channels_matrix = None
    /\ error_props_per_channel = None /\ errors_reduced = None
    /\ cross_entropy_loss = None /\ blacklisting_penalty = None /\ loss_func = None
    /\ tsch_errors = None /\ pivots = None /\ available_channels = None
    /\ interference_values = None /\ reception_props_values = None

Init ==
    /\ datapoints \in 1..MaxDatapoints
    /\ args \in Args(datapoints)
    /\ files \in [{"mean", "max"} -> {AbsentFile, SavedFile}]
    /\ collaborators \in Collaborators
    /\ pc = "setup"
    /\ Unassigned

\* lines 58-68, and the branch of line 70
Setup ==
    /\ pc = "setup"
    /\ train_samples_cutoff' = args.train_split * args.sample_rate
    /\ training_len' = Min(args.train_split * args.sample_rate, datapoints)
    /\ data_mean' = <<"mean", 0, Min(args.train_split * args.sample_rate, datapoints)>>
    /\ data_std' = <<"std", 0, Min(args.train_split * args.sample_rate, datapoints)>>
    /\ models' = [m \in {"mean", "max"} |->
                    [penalty_weight |-> IF m = "mean" THEN <<5, 100>> ELSE <<55, 100>>,
                     network |-> NewNetwork]]
    /\ reducing_method' = "mean"
    /\ pc' = IF args.train THEN "train_begin" ELSE "load"
    /\ UNCHANGED <<args, files, collaborators, datapoints, error, optimizer, iteration,
                   metrics, blacklist, fwd, evl>>

\* lines 72-76: a new optimizer, an empty metrics list, training mode
TrainBegin ==
    /\ pc = "train_begin"
    /\ optimizer' = [steps |-> 0, grads |-> "none"]
    /\ metrics' = <<>>
    /\ models' = [models EXCEPT ![reducing_method].network.training = TRUE]
    /\ iteration' = 0
    /\ pc' = "sample"
    /\ UNCHANGED <<ctl, error, reducing_method, blacklist, fwd, evl>>

\* lines 77-81: zero_grad, then the random batch and its windows
SampleBatch ==
    /\ pc = "sample"
    /\ optimizer' = [optimizer EXCEPT !.grads = "zero"]
    /\ UNCHANGED <<ctl, models, reducing_method, iteration, metrics, blacklist,
                   past_windows_normalized,
                   error_prop_values, channels_matrix, error_props_per_channel,
                   errors_reduced, cross_entropy_loss, blacklisting_penalty, loss_func, evl>>
    /\ \/ /\ SampleLow >= SampleHigh
          /\ Raise("ValueError")
          /\ UNCHANGED <<random_indices, past_windows, future_windows>>
       \/ /\ SampleLow < SampleHigh
          /\ \E indices \in [1..args.batch_size -> SampleLow..(SampleHigh - 1)] :
                /\ random_indices' = indices
                /\ past_windows' = IF CanCat(TrainPastWindows(indices))
                                   THEN TrainPastWindows(indices) ELSE past_windows
                /\ IF CanCat(TrainPastWindows(indices)) /\ CanCat(TrainFutureWindows(indices))
                   THEN /\ future_windows' = TrainFutureWindows(indices)
                        /\ pc' = "network"
                        /\ error' = error
                   ELSE /\ Raise("RuntimeError")
                        /\ UNCHANGED future_windows

\* lines 83-85: interpolate, normalize, network(past_windows_normalized)
ForwardNetwork ==
    /\ pc = "network"
    /\ UNCHANGED <<ctl, models, reducing_method, optimizer, iteration, metrics, evl,
                   random_indices, past_windows, future_windows, error_prop_values,
                   channels_matrix, error_props_per_channel, errors_reduced,
                   cross_entropy_loss, blacklisting_penalty, loss_func>>
    /\ \/ /\ WindowLen(past_windows[1]) = 0
          /\ Raise("RuntimeError")
          /\ UNCHANGED <<blacklist, past_windows_normalized>>
       \/ /\ WindowLen(past_windows[1]) > 0
          /\ past_windows_normalized' = Normalized(past_windows)
          /\ blacklist' = NetworkScores
          /\ pc' = "reduce_inputs"
          /\ error' = error

\* lines 87-89: tsch(future_windows), error_props, the per-channel errors
Simulate ==
    /\ pc = "reduce_inputs"
    /\ UNCHANGED <<ctl, models, reducing_method, optimizer, iteration, metrics, blacklist,
                   random_indices, past_windows, future_windows, past_windows_normalized,
                   errors_reduced, cross_entropy_loss, blacklisting_penalty, loss_func, evl>>
    /\ \/ /\ WindowLen(future_windows[1]) = 0
          /\ Raise("RuntimeError")
          /\ UNCHANGED <<error_prop_values, channels_matrix, error_props_per_channel>>
       \/ /\ WindowLen(future_windows[1]) > 0
          /\ LET T == WindowLen(future_windows[1])
             IN  /\ error_prop_values' = ErrorProps(T)
                 /\ channels_matrix' = TschMatrix(T)
                 /\ error_props_per_channel' = PerChannel(ErrorProps(T), TschMatrix(T))
          /\ pc' = "reduce"
          /\ error' = error

\* line 90
Reduce ==
    /\ pc = "reduce"
    /\ errors_reduced' = reduce(error_props_per_channel, reducing_method, channels_matrix)
    /\ pc' = "loss"
    /\ UNCHANGED <<ctl, error, models, reducing_method, optimizer, iteration, metrics,
                   blacklist, random_indices, past_windows, future_windows,
                   past_windows_normalized,
                   error_prop_values, channels_matrix, error_props_per_channel,
                   cross_entropy_loss, blacklisting_penalty, loss_func, evl>>

\* lines 92-97
Loss ==
    /\ pc = "loss"
    /\ UNCHANGED <<ctl, models, reducing_method, optimizer, iteration, metrics, blacklist,
                   random_indices, past_windows, future_windows, past_windows_normalized,
                   error_prop_values, channels_matrix, error_props_per_channel,
                   errors_reduced, evl>>
    /\ LET outputs == Outputs(errors_reduced, blacklist)
       IN  IF \A c \in 1..Len(outputs) : InUnitRange(outputs[c])
           THEN /\ cross_entropy_loss' = BCELoss(outputs)
                /\ blacklisting_penalty' = BlacklistingPenalty(blacklist)
                /\ loss_func' = LossFunc(BCELoss(outputs), BlacklistingPenalty(blacklist),
                                         models[reducing_method].penalty_weight)
                /\ pc' = "backward"
                /\ error' = error
           ELSE /\ Raise("RuntimeError")
                /\ UNCHANGED <<cross_entropy_loss, blacklisting_penalty, loss_func>>

\* line 99
Backward ==
    /\ pc = "backward"
    /\ optimizer' = [optimizer EXCEPT !.grads = "loss_func"]
    /\ pc' = "step"
    /\ UNCHANGED <<ctl, error, models, reducing_method, iteration, metrics, blacklist,
                   fwd, evl>>

\* line 101
OptimizerStep ==
    /\ pc = "step"
    /\ optimizer' = [optimizer EXCEPT !.steps = @ + 1]
    /\ models' = [models EXCEPT ![reducing_method].network.params.updates = @ + 1]
    /\ pc' = "log"
    /\ UNCHANGED <<ctl, error, reducing_method, iteration, metrics, blacklist, fwd, evl>>

\* Log with a loop that runs one iteration more.
LogOneMore ==
    /\ pc = "log"
    /\ metrics' = Append(metrics, <<cross_entropy_loss, blacklisting_penalty, loss_func>>)
    /\ iteration' = IF iteration + 1 <= args.iterations THEN iteration + 1 ELSE iteration
    /\ pc' = IF iteration + 1 <= args.iterations THEN "sample" ELSE "save"
    /\ UNCHANGED <<ctl, error, models, reducing_method, optimizer, blacklist, fwd, evl>>

\* lines 103-107, and the loop of line 76: range(args.iterations) binds iteration
\* to the next value, or is exhausted and leaves it at args.iterations - 1.
Log ==
    /\ pc = "log"
    /\ metrics' = Append(metrics, <<cross_entropy_loss, blacklisting_penalty, loss_func>>)
    /\ iteration' = IF iteration + 1 < args.iterations THEN iteration + 1 ELSE iteration
    /\ pc' = IF iteration + 1 < args.iterations THEN "sample" ELSE "save"
    /\ UNCHANGED <<ctl, error, models, reducing_method, optimizer, blacklist, fwd, evl>>

\* lines 108-118, and the loop of line 72
Save ==
    /\ pc = "save"
    /\ files' = [files EXCEPT ![reducing_method] =
                            [exists |-> TRUE, network |-> models[reducing_method].network]]
    /\ IF NextMethod(reducing_method) = None
       THEN pc' = "baseline" /\ UNCHANGED reducing_method
       ELSE pc' = "train_begin" /\ reducing_method' = NextMethod(reducing_method)
    /\ UNCHANGED <<args, collaborators, datapoints, train_samples_cutoff, training_len,
                   data_mean, data_std, error, models, optimizer, iteration, metrics,
                   blacklist, fwd, evl>>

\* lines 121-123
Load ==
    /\ pc = "load"
    /\ UNCHANGED <<ctl, optimizer, iteration, metrics, blacklist, fwd, evl>>
    /\ \/ /\ ~files[reducing_method].exists
          /\ Raise("FileNotFoundError")
          /\ UNCHANGED <<models, reducing_method>>
       \/ /\ files[reducing_method].exists
          /\ models' = [models EXCEPT ![reducing_method].network =
                                        files[reducing_method].network]
          /\ IF NextMethod(reducing_method) = None
             THEN pc' = "baseline" /\ UNCHANGED reducing_method
             ELSE pc' = "load" /\ reducing_method' = NextMethod(reducing_method)
          /\ error' = error

\* lines 125-138: the baseline simulations of the whole series.  tsch_errors[t]
\* is the baseline error of time step t - 1.
Baseline ==
    /\ pc = "baseline"
    /\ tsch_errors' = [t \in 1..datapoints |-> [source |-> "tsch", step |-> t - 1]]
    /\ reducing_method' = "mean"
    /\ pc' = "eval_windows"
    /\ UNCHANGED <<ctl, error, models, optimizer, iteration, metrics, blacklist, fwd,
                   pivots, available_channels, interference_values, reception_props_values>>

\* lines 140-145: evaluation mode, the pivot grid and its windows
EvalWindows ==
    /\ pc = "eval_windows"
    /\ models' = [models EXCEPT ![reducing_method].network.training = FALSE]
    /\ pivots' = EvalPivots
    /\ UNCHANGED <<ctl, reducing_method, optimizer, iteration, metrics, blacklist,
                   random_indices, error_prop_values, channels_matrix,
                   error_props_per_channel, errors_reduced, cross_entropy_loss,
                   blacklisting_penalty, loss_func, tsch_errors, available_channels,
                   interference_values, reception_props_values>>
    /\ past_windows' = IF CanCat(EvalPastWindows(EvalPivots))
                       THEN EvalPastWindows(EvalPivots) ELSE past_windows
    /\ IF CanCat(EvalPastWindows(EvalPivots)) /\ CanCat(EvalFutureWindows(EvalPivots))
       THEN /\ future_windows' = EvalFutureWindows(EvalPivots)
            /\ past_windows_normalized' = Normalized(EvalPastWindows(EvalPivots))
            /\ pc' = "eval_network"
            /\ error' = error
       ELSE /\ Raise("RuntimeError")
            /\ UNCHANGED <<future_windows, past_windows_normalized>>

\* line 147: one row of scores per pivot
EvalNetwork ==
    /\ pc = "eval_network"
    /\ blacklist' = NetworkRows(Len(pivots))
    /\ pc' = "eval_mask"
    /\ UNCHANGED <<ctl, error, models, reducing_method, optimizer, iteration, metrics,
                   fwd, evl>>

\* lines 148-151
EvalMask ==
    /\ pc = "eval_mask"
    /\ available_channels' = AvailableChannels(blacklist)
    /\ pc' = "eval_simulate"
    /\ UNCHANGED <<ctl, error, models, reducing_method, optimizer, iteration, metrics,
                   blacklist, fwd, tsch_errors, pivots, interference_values,
                   reception_props_values>>

\* intelligent_tsch(future_windows, available_channels): one value per slot of the
\* window and per pivot, from the slot's time step and the pivot's mask row.
IntelligentTsch(windows, mask) ==
    [t \in 1..WindowLen(windows[1]) |->
        [i \in 1..Len(windows) |->
            [source |-> "intelligent_tsch", step |-> windows[i][1] + t - 1, mask |-> mask[i]]]]

\* lines 152-153
EvalSimulate ==
    /\ pc = "eval_simulate"
    /\ interference_values' = IntelligentTsch(future_windows, available_channels)
    /\ pc' = "eval_stitch"
    /\ UNCHANGED <<ctl, error, models, reducing_method, optimizer, iteration, metrics,
                   blacklist, fwd, tsch_errors, pivots, available_channels,
                   reception_props_values>>

\* tensor.permute(1, 0).view(-1, 1) of a (slots, pivots) tensor: pivot by pivot.
Flatten(tensor) ==
    LET slots == Len(tensor)
        n == IF slots = 0 THEN 0 ELSE Len(tensor[1])
    IN  [k \in 1..(n * slots) |-> tensor[((k - 1) % slots) + 1][((k - 1) \div slots) + 1]]
\* torch.cat((tsch_errors[:pastLen], error_props_values...), dim=0) (line 154)
Stitch(baseline, masked) == SubSeq(baseline, 1, Min(PastLen, Len(baseline))) \o Flatten(masked)

\* .view(-1, 1) of the permuted (slots, pivots) tensor (line 154): a tensor of one
\* slot or of one pivot can always be viewed; one of several slots and several
\* pivots only when the simulator laid it out pivot by pivot.
CanView(tensor) ==
    \/ collaborators.layout = "pivot-major"
    \/ Len(tensor) <= 1
    \/ Len(tensor[1]) <= 1
\* tsch_receptions.numpy().flatten()[train_samples_cutoff: min(len(series), 300 *
\* args.sample_rate)] (line 162): the bounds of the baseline receptions plotted.
PlottedRange(series) ==
    Slice(train_samples_cutoff, Min(Len(series), PlotSeconds * args.sample_rate),
          Len(tsch_errors))

\* lines 154-163, and the loop of line 139
EvalStitch ==
    /\ pc = "eval_stitch"
    /\ UNCHANGED <<ctl, models, optimizer, iteration, metrics, blacklist, fwd,
                   tsch_errors, pivots, available_channels, interference_values>>
    /\ IF ~CanView(interference_values)
       THEN /\ Raise("RuntimeError")
            /\ UNCHANGED <<reception_props_values, reducing_method>>
       ELSE /\ reception_props_values' = Stitch(tsch_errors, interference_values)
            /\ IF WindowLen(PlottedRange(Stitch(tsch_errors, interference_values))) <= 0
               THEN /\ Raise("ValueError")
                    /\ UNCHANGED reducing_method
               ELSE /\ error' = error
                    /\ IF NextMethod(reducing_method) = None
                       THEN pc' = "done" /\ UNCHANGED reducing_method
                       ELSE /\ pc' = "eval_windows"
                            /\ reducing_method' = NextMethod(reducing_method)

Next ==
    \/ Setup
    \/ TrainBegin \/ SampleBatch \/ ForwardNetwork \/ Simulate \/ Reduce \/ Loss
    \/ Backward \/ OptimizerStep \/ Log \/ Save
    \/ Load
    \/ Baseline \/ EvalWindows \/ EvalNetwork \/ EvalMask \/ EvalSimulate \/ EvalStitch

Spec == Init /\ [][Next]_vars

----------------------------------------------------------------------------
(* The evaluation's mask on the score rows of ScoreRows: the run           *)
(*   main.py <dataset> --train-split 1 --sample-rate 1 --past-window 1     *)
(*           --future-window 1                                             *)
(* on a series of 2 time steps and saved networks, at line 148 of the      *)
(* evaluation of 'mean', the network having returned one row of scores     *)
(* for the pivot 1.                                                        *)

InitMask ==
    /\ args = [train |-> FALSE, train_split |-> 1, sample_rate |-> 1, past_window |-> 1,
               future_window |-> 1, iterations |-> 1, batch_size |-> 1]
    /\ files = [m \in {"mean", "max"} |-> SavedFile]
    /\ blacklist \in {<<row>> : row \in ScoreRows}
    /\ \E layout \in Layouts : collaborators = [rows |-> blacklist, layout |-> layout]
    /\ datapoints = 2
    /\ pc = "eval_mask"
    /\ error = "none"
    /\ train_samples_cutoff = 1 /\ training_len = 1
    /\ data_mean = <<"mean", 0, 1>> /\ data_std = <<"std", 0, 1>>
    /\ models = [m \in {"mean", "max"} |->
                    [penalty_weight |-> IF m = "mean" THEN <<5, 100>> ELSE <<55, 100>>,
                     network |-> [SavedFile.network EXCEPT !.training = (m # "mean")]]]
    /\ reducing_method = "mean"
    /\ optimizer = None /\ iteration = None /\ metrics = None
    /\ random_indices = None
    /\ past_windows = <<<<0, 1>>>> /\ future_windows = <<<<1, 2>>>>
    /\ past_windows_normalized =
            [windows |-> <<<<0, 1>>>>, mean |-> <<"mean", 0, 1>>, std |-> <<"std", 0, 1>>]
    /\ error_prop_values = None /\ channels_matrix = None
    /\ error_props_per_channel = None /\ errors_reduced = None
    /\ cross_entropy_loss = None /\ blacklisting_penalty = None /\ loss_func = None
    /\ tsch_errors = [t \in 1..2 |-> [source |-> "tsch", step |-> t - 1]]
    /\ pivots = <<1>>
    /\ available_channels = None
    /\ interference_values = None /\ reception_props_values = None

NextMask == EvalMask \/ EvalSimulate \/ EvalStitch

SpecMask == InitMask /\ [][NextMask]_vars

----------------------------------------------------------------------------
(* The reducer and the loss on the error values, attribution matrices and  *)
(* scores of the sets above: the run                                       *)
(*   main.py <dataset> --train --train-split T+5 --sample-rate 1           *)
(*           --past-window 1 --future-window T --iterations 1              *)
(*           --batch-size 1                                                *)
(* on a series of T + 5 time steps, at line 90 of the only iteration of    *)
(* either method, the batch being the pivot 1.  The iteration of 'mean'    *)
(* that precedes the one of 'max' had zero scores and zero errors.         *)

ZeroErrors(T) == [t \in 1..T |-> 0]
ZeroScores == [c \in 1..NCells |-> 0]
PrevReduced(T) == reduce(PerChannel(ZeroErrors(T), OnesMatrix(T)), "mean", OnesMatrix(T))
PrevLoss(T) == BCELoss(Outputs(PrevReduced(T), ZeroScores))

\* The scores, error values and attribution matrices the forward pass is explored on.
ForwardInputs(T) ==
    ({[c \in 1..NCells |-> 1]} \X ErrorValues(T) \X Matrices(T))
        \cup (ScoreCells \X ErrorValues(T) \X {OnesMatrix(T), HopMatrix(T), FirstMatrix(T)})

InitForward ==
    \E T \in 2..MaxSlots, m \in {"mean", "max"} : \E in \in ForwardInputs(T) :
        /\ args = [train |-> TRUE, train_split |-> T + 5, sample_rate |-> 1,
                   past_window |-> 1, future_window |-> T, iterations |-> 1,
                   batch_size |-> 1]
        /\ datapoints = T + 5
        /\ pc = "reduce"
        /\ error = "none"
        /\ train_samples_cutoff = T + 5 /\ training_len = T + 5
        /\ data_mean = <<"mean", 0, T + 5>> /\ data_std = <<"std", 0, T + 5>>
        /\ reducing_method = m
        /\ models = [v \in {"mean", "max"} |->
                        [penalty_weight |-> IF v = "mean" THEN <<5, 100>> ELSE <<55, 100>>,
                         network |-> IF v = "mean" /\ m = "max"
                                     THEN [NewNetwork EXCEPT !.params.updates = 1]
                                     ELSE NewNetwork]]
        /\ files = [v \in {"mean", "max"} |->
                        IF v = "mean" /\ m = "max"
                        THEN [exists |-> TRUE,
                              network |-> [NewNetwork EXCEPT !.params.updates = 1]]
                        ELSE AbsentFile]
        /\ collaborators = [scores |-> in[1], errors |-> in[2], matrix |-> in[3]]
        /\ optimizer = [steps |-> 0, grads |-> "zero"]
        /\ iteration = 0
        /\ metrics = <<>>
        /\ random_indices = <<1>>
        /\ past_windows = <<<<0, 1>>>> /\ future_windows = <<<<1, 1 + T>>>>
        /\ past_windows_normalized =
                [windows |-> <<<<0, 1>>>>, mean |-> <<"mean", 0, T + 5>>,
                 std |-> <<"std", 0, T + 5>>]
        /\ blacklist = in[1]
        /\ error_prop_values = in[2]
        /\ channels_matrix = in[3]
        /\ error_props_per_channel = PerChannel(in[2], in[3])
        /\ errors_reduced = IF m = "max" THEN PrevReduced(T) ELSE None
        /\ cross_entropy_loss = IF m = "max" THEN PrevLoss(T) ELSE None
        /\ blacklisting_penalty = IF m = "max" THEN BlacklistingPenalty(ZeroScores) ELSE None
        /\ loss_func = IF m = "max"
                       THEN LossFunc(PrevLoss(T), BlacklistingPenalty(ZeroScores), <<5, 100>>)
                       ELSE None
        /\ tsch_errors = None /\ pivots = None /\ available_channels = None
        /\ interference_values = None /\ reception_props_values = None

NextForward == Reduce \/ Loss \/ Backward \/ OptimizerStep \/ Log

SpecForward == InitForward /\ [][NextForward]_vars

----------------------------------------------------------------------------
(* Claims on the availability mask (SpecMask).                             *)

\* The number of channels a mask row marks available.
CountAvailable(maskRow) == Cardinality({c \in 1..Len(maskRow) : maskRow[c]})
\* The value at index 8 of the row sorted ascending.
ThresholdOf(row) == SortRow(row)[ThresholdIndex + 1]
\* No other entry of the row equals the threshold value.
UniqueThreshold(row) == Cardinality({c \in 1..Len(row) : row[c] = ThresholdOf(row)}) = 1
\* The mask of the score matrix has been computed (line 151).
MaskComputed == pc \in {"eval_simulate", "eval_stitch"}

\* C1: every row of the availability mask has at most N - k = 16 - 8 channels
\* available, and exactly N - k when no other entry of the row equals the threshold.
C1_MaskBudget ==
    MaskComputed =>
        \A r \in 1..Len(blacklist) :
            /\ Len(blacklist[r]) = Channels
            /\ CountAvailable(available_channels[r]) <= Channels - ThresholdIndex
            /\ UniqueThreshold(blacklist[r])
                  => CountAvailable(available_channels[r]) = Channels - ThresholdIndex

\* A row with a unique threshold value has been masked and keeps 8 channels.
C1_Witness ==
    /\ MaskComputed
    /\ UniqueThreshold(blacklist[1])
    /\ CountAvailable(available_channels[1]) = 8

RowMin(row) == CHOOSE v \in {row[c] : c \in 1..Len(row)} : \A c \in 1..Len(row) : v <= row[c]
NoneAvailable(maskRow) == \A c \in 1..Len(maskRow) : ~maskRow[c]

\* C10: a mask row has no available channel iff the row's minimum equals its value
\* at sorted index 8; that all-false row reaches intelligent_tsch unchanged and
\* without the run failing; in every other row each available channel scores
\* strictly lower than each unavailable channel.
C10_EmptyMask ==
    /\ MaskComputed =>
          \A r \in 1..Len(blacklist) :
              /\ NoneAvailable(available_channels[r])
                    <=> (RowMin(blacklist[r]) = ThresholdOf(blacklist[r]))
              /\ \A c1, c2 \in 1..Channels :
                    (available_channels[r][c1] /\ ~available_channels[r][c2])
                        => blacklist[r][c1] < blacklist[r][c2]
    /\ pc = "eval_stitch" =>
          /\ error = "none"
          /\ \A t \in 1..Len(interference_values) : \A i \in 1..Len(pivots) :
                interference_values[t][i].mask = available_channels[i]

\* An all-false mask row has been passed to intelligent_tsch.
C10_Witness ==
    /\ pc = "eval_stitch"
    /\ NoneAvailable(available_channels[1])
    /\ RowMin(blacklist[1]) = ThresholdOf(blacklist[1])
    /\ interference_values[1][1].mask = available_channels[1]

----------------------------------------------------------------------------
(* Claims on the reducer and the loss (SpecForward).                       *)

AllOnes(matrix) == \A t \in 1..Len(matrix) : \A c \in 1..Len(matrix[t]) : matrix[t][c] = 1
IsZero(q) == q[1] = 0 /\ q[2] # 0

\* C5: with an all-ones attribution matrix the 'mean' reducer returns, per cell, the
\* sum of the values along the reduced axis divided by their count, and the 'max'
\* reducer returns, per cell, the maximum of the values along the reduced axis, the
\* axis holding 2 or 3 entries (2..MaxSlots).
C5_Reduce ==
    pc = "loss" =>
        LET values == error_props_per_channel
            count == Len(values)
        IN  /\ count \in 2..MaxSlots
            /\ \A c \in 1..NCells :
                  LET along == Column(values, c)
                      q == errors_reduced[c]
                  IN  /\ (reducing_method = "mean" /\ AllOnes(channels_matrix))
                            => /\ IsFinite(q)
                               /\ q[1] * (Scale * count) = SumSeq(along) * q[2]
                      /\ reducing_method = "max"
                            => /\ IsFinite(q)
                               /\ \E t \in 1..count : q[1] * Scale = along[t] * q[2]
                               /\ \A t \in 1..count : along[t] * q[2] <= q[1] * Scale

\* The mean of three values that are not all equal has been taken.
C5_Witness ==
    /\ pc = "loss"
    /\ reducing_method = "mean"
    /\ AllOnes(channels_matrix)
    /\ Len(error_props_per_channel) = 3
    /\ error_prop_values[1] # error_prop_values[2]
    /\ RatEq(errors_reduced[1], <<SumSeq(error_prop_values), 3 * Scale>>)

\* The cells whose total attribution weight is zero.
ZeroWeightCells == {c \in 1..NCells : SumSeq(Column(channels_matrix, c)) = 0}
DegenerateMean == reducing_method = "mean" /\ ZeroWeightCells # {}

\* C6 as claimed: the 'mean' reducer applied to a cell of zero total weight returns
\* no value: the run ends there in a fatal error.
C6_NoValueReturned == DegenerateMean => pc \in {"reduce", "failed"}

\* C6 as amended: the 'mean' reducer returns NaN (0/0) for a cell of zero total
\* weight without failing; the run ends in a fatal error at the loss (nn.BCELoss
\* rejects the NaN of line 95), which assigns no loss value, and no backward pass,
\* parameter update or logging follows.
C6_DegenerateMeanFatal ==
    [][DegenerateMean =>
          /\ pc = "reduce" =>
                /\ pc' = "loss"
                /\ \A c \in ZeroWeightCells : IsNaN(errors_reduced'[c])
          /\ pc = "loss" =>
                /\ pc' = "failed" /\ error' = "RuntimeError"
                /\ UNCHANGED <<cross_entropy_loss, blacklisting_penalty, loss_func,
                               optimizer, models, metrics>>
          /\ pc' \notin {"backward", "step", "log", "save"}]_vars

\* The run has ended at the loss of a cell of zero weight, before any update.
C6_Witness ==
    /\ pc = "failed"
    /\ DegenerateMean
    /\ \E c \in ZeroWeightCells : IsNaN(errors_reduced[c])
    /\ optimizer.steps = 0
    /\ metrics = <<>>

AllScores(s) == \A c \in 1..Len(blacklist) : blacklist[c] = s
PenaltyWeight == models[reducing_method].penalty_weight

\* C7 as claimed: once the loss statements have run with every score 1, the total
\* loss equals the penalty weight, whatever the reduced errors are.
C7_AnyReducedError ==
    (pc \in {"backward", "failed"} /\ AllScores(Scale))
        => (pc = "backward" /\ RatEq(loss_func, PenaltyWeight))

\* C7 as amended: with every score 0 and every reduced error 0 the total loss is 0;
\* with every score 1 and every reduced error finite (not NaN or inf), the
\* exclusion penalty is 1, the predicted failure is 0 in every cell and the total
\* loss equals the variant's penalty weight (0.05 or 0.55).
C7_LossAtExtremes ==
    [][pc = "loss" =>
          /\ (AllScores(0) /\ \A c \in 1..NCells : IsZero(errors_reduced[c]))
                => /\ pc' = "backward"
                   /\ IsZero(loss_func')
          /\ (AllScores(Scale) /\ \A c \in 1..NCells : IsFinite(errors_reduced[c]))
                => /\ pc' = "backward"
                   /\ RatEq(blacklisting_penalty', <<1, 1>>)
                   /\ \A c \in 1..NCells : IsZero(Outputs(errors_reduced, blacklist)[c])
                   /\ RatEq(loss_func', PenaltyWeight)
                   /\ PenaltyWeight \in {<<5, 100>>, <<55, 100>>}]_vars

\* The loss of all-one scores over a reduced error that is not zero is the weight.
C7_Witness ==
    /\ pc = "backward"
    /\ AllScores(Scale)
    /\ \E c \in 1..NCells : ~IsZero(errors_reduced[c])
    /\ RatEq(loss_func, PenaltyWeight)

----------------------------------------------------------------------------
(* Claims on the pivots and the stitched series (Spec).                    *)

EvalGridBuilt == pc \in {"eval_network", "eval_mask", "eval_simulate", "eval_stitch", "done"}

\* C2: every pivot of the evaluation grid satisfies
\* pastLen <= pivot <= datapoints - futureLen, and its future window holds exactly
\* futureLen samples of the series.
C2_EvalPivotsInRange ==
    EvalGridBuilt =>
        \A i \in 1..Len(pivots) :
            /\ PastLen <= pivots[i]
            /\ pivots[i] <= datapoints - FutureLen
            /\ WindowLen(future_windows[i]) = FutureLen

BatchSampled == pc \in {"network", "reduce_inputs", "reduce", "loss", "backward", "step", "log"}

\* C3: every sampled training pivot p lies in [pastLen, 0.8 * datapoints - futureLen)
\* and satisfies p - pastLen >= 0 and p + futureLen <= len(training_data), so its
\* past window holds pastLen samples and its future window futureLen samples.
C3_TrainPivotsInRange ==
    BatchSampled =>
        \A i \in 1..Len(random_indices) :
            /\ PastLen <= random_indices[i]
            /\ random_indices[i] < SampleHigh
            /\ random_indices[i] - PastLen >= 0
            /\ random_indices[i] + FutureLen <= training_len
            /\ WindowLen(past_windows[i]) = PastLen
            /\ WindowLen(future_windows[i]) = FutureLen

\* The reception series of the method evaluated last has been stitched.
Stitched == pc = "done" \/ (pc = "eval_windows" /\ reducing_method = "max")

\* C4: the stitched reception series has length pastLen + (number of pivots) * futureLen;
\* its first pastLen entries are the baseline outputs of the time steps
\* 0..pastLen-1 and the rest are the masked outputs of the pivots in ascending order.
C4_StitchedSeries ==
    Stitched =>
        /\ Len(reception_props_values) = PastLen + Len(pivots) * FutureLen
        /\ \A k \in 1..PastLen :
              reception_props_values[k] = [source |-> "tsch", step |-> k - 1]
        /\ \A i \in 1..Len(pivots) : \A o \in 1..FutureLen :
              reception_props_values[PastLen + (i - 1) * FutureLen + o] =
                  [source |-> "intelligent_tsch", step |-> pivots[i] + o - 1,
                   mask |-> available_channels[i]]
        /\ \A i, j \in 1..Len(pivots) : i < j => pivots[i] < pivots[j]

----------------------------------------------------------------------------
(* Claims on the order of the steps (Spec).                                *)

TrainPcs == {"sample", "network", "reduce_inputs", "reduce", "loss", "backward", "step", "log"}
Params(m) == models[m].network.params

\* C8: for 'mean' and then 'max' the trainer performs exactly args.iterations
\* iterations and then saves; in an iteration the steps follow one another in the
\* order sample, network, simulation, reduction, loss, backward, optimizer step,
\* logging; the parameters are updated once per iteration, by the optimizer step;
\* an iteration starts only after the logging of the one before.
C8_TrainingLoop ==
    [][/\ pc' = "train_begin" =>
              \/ pc = "setup" /\ reducing_method' = "mean"
              \/ pc = "save" /\ reducing_method = "mean" /\ reducing_method' = "max"
       /\ pc' = "sample" => pc \in {"train_begin", "log"}
       /\ pc' = "network" => pc = "sample"
       /\ pc' = "reduce_inputs" => pc = "network"
       /\ pc' = "reduce" => pc = "reduce_inputs"
       /\ pc' = "loss" => pc = "reduce"
       /\ pc' = "backward" => pc = "loss"
       /\ pc' = "step" => pc = "backward"
       /\ pc' = "log" => pc = "step"
       /\ pc' = "save" => pc = "log"
       /\ pc \in TrainPcs =>
              /\ reducing_method' = reducing_method
              /\ IF pc = "step"
                 THEN /\ Params(reducing_method)' =
                            [Params(reducing_method) EXCEPT !.updates = @ + 1]
                      /\ optimizer'.steps = optimizer.steps + 1
                 ELSE /\ models' = models
                      /\ optimizer'.steps = optimizer.steps
       /\ pc' \in TrainPcs =>
              /\ iteration' < args.iterations
              /\ Len(metrics') = iteration'
              /\ optimizer'.steps = IF pc' = "log" THEN iteration' + 1 ELSE iteration'
       /\ pc' = "save" =>
              /\ iteration' = args.iterations - 1
              /\ Len(metrics') = args.iterations
              /\ optimizer'.steps = args.iterations
              /\ Params(reducing_method)' = [origin |-> "init", updates |-> args.iterations]
       /\ (pc = "save" /\ reducing_method = "max") => pc' = "baseline"]_vars

\* The training of 'max' has ended after two iterations.
C8_Witness ==
    /\ pc = "save"
    /\ reducing_method = "max"
    /\ args.iterations = 2
    /\ Len(metrics) = 2
    /\ optimizer.steps = 2
    /\ Params("mean").updates = 2 /\ Params("max").updates = 2

EvalPcs == {"eval_windows", "eval_network", "eval_mask", "eval_simulate", "eval_stitch"}

\* C9: the evaluation of a method starts only after its training has finished (its
\* network saved after args.iterations updates) or its snapshot has been loaded; no
\* evaluation step changes the parameters of either network; the statistics are
\* computed by the setup, before every training and evaluation step, never change
\* afterwards, and every normalization, of training and of evaluation, uses them.
C9_EvalReadsOnly ==
    [][/\ pc' \in EvalPcs =>
              IF args.train
              THEN /\ files'[reducing_method'].exists
                   /\ files'[reducing_method'].network.params = models'[reducing_method'].network.params
                   /\ models'[reducing_method'].network.params.updates = args.iterations
              ELSE /\ files'[reducing_method'].exists
                   /\ models'[reducing_method'].network.params = files'[reducing_method'].network.params
       /\ pc \in EvalPcs \cup {"baseline"} =>
              /\ \A m \in {"mean", "max"} : Params(m)' = Params(m)
              /\ files' = files
       /\ pc = "setup" =>
              /\ pc' \in {"train_begin", "load"}
              /\ data_mean' = <<"mean", 0, training_len'>>
              /\ data_std' = <<"std", 0, training_len'>>
       /\ pc # "setup" => data_mean' = data_mean /\ data_std' = data_std
       /\ ((pc = "network" /\ pc' = "reduce_inputs") \/ (pc = "eval_windows" /\ pc' = "eval_network"))
              => /\ past_windows_normalized'.windows = past_windows'
                 /\ past_windows_normalized'.mean = data_mean
                 /\ past_windows_normalized'.std = data_std]_vars

\* A trained run has evaluated both methods.
C9_Witness ==
    /\ pc = "done"
    /\ args.train
    /\ Params("max").updates = args.iterations
    /\ files["max"].network.params = Params("max")
    /\ past_windows_normalized.mean = data_mean
    /\ data_mean = <<"mean", 0, training_len>>

====
